---- MODULE Spec2Model ----
(***************************************************************************)
(* tk-houdini publish hooks.                                               *)
(*                                                                         *)
(* Three entry points are modelled, each under its own specification:     *)
(*   Spec        HoudiniSessionCollector.process_current_session, one      *)
(*               action per collector step it calls, in call order;        *)
(*   SettingsSpec  the same call with the "Work Template" setting varied   *)
(*               and the debug log kept;                                   *)
(*   PluginSpec  HoudiniDeadlineSubmitForReviewPlugin.accept and .publish  *)
(*               applied to one publish item;                              *)
(*   HostSpec    tk_houdini.startup.setFrameRange, one action per host     *)
(*               call it makes.                                            *)
(* The host objects (scene nodes, engine.apps, templates, the review       *)
(* submission app) are inputs: the scene and the item are drawn in Init,    *)
(* what an app answers is drawn when the code queries it.                  *)
(***************************************************************************)
EXTENDS Integers, Sequences, FiniteSets, TLC

\* most nodes in the scene / most separate-file AOVs (or filters) per node
MaxNodes == 2
MaxSubs == 1
\* last frame number of the timeline
MaxFrame == 3
\* most nodes in a scene collected under a configured Work Template
MaxSettingsNodes == 1

VARIABLES
    \* ---- collector ----
    scene,      \* the session's output nodes, grouped by node type
    settings,   \* the collector's "Work Template" setting: <<>> or <<name>>
    pc,         \* step of process_current_session that runs next
    items,      \* publish items created so far; an item's id is its index
    collected,  \* the self._*_nodes_collected flags
    cur,        \* what the step that ran last saw of engine.apps / os.getenv
    missing,    \* the debug log has "app is not installed" from this call:
                \* "yes", "no", or "off" when debug messages are not kept
    err,        \* exception that left process_current_session, or "none"
    \* ---- review plugin ----
    os_sep,     \* os.sep of the platform
    properties, \* item.properties of the item handed to accept / publish
    review_app, \* engine.apps has "tk-multi-deadlinereviewsubmission"
    ppc,        \* position of the plugin call
    result,     \* outcome of accept
    calls,      \* submit_version calls made, with their arguments
    version,    \* what submit_version returned
    perr,       \* exception that left publish, or "none"
    \* ---- startup.setFrameRange ----
    startFrame, \* the arguments of setFrameRange
    endFrame,
    frame_range,    \* hou.playbar's frame range
    playback_range, \* hou.playbar's playback range
    frame,      \* the host's current frame
    fpc,        \* statement of setFrameRange that runs next
    host_calls  \* the hou calls setFrameRange has made, in order

cvars == <<scene, settings, pc, items, collected, cur, missing, err>>
pvars == <<os_sep, properties, review_app, ppc, result, calls, version, perr>>
hvars == <<startFrame, endFrame, frame_range, playback_range, frame, fpc,
           host_calls>>
vars == <<scene, settings, pc, items, collected, cur, missing, err,
          os_sep, properties, review_app, ppc, result, calls, version, perr,
          startFrame, endFrame, frame_range, playback_range, frame, fpc,
          host_calls>>

(***************************************************************************)
(* Scene                                                                   *)
(***************************************************************************)

\* node types of the six toolkit apps, in the order their collectors run
TkTypes == <<"sgtk_alembic", "sgtk_mantra", "sgtk_arnold", "sgtk_hdprman",
             "sgtk_cache", "sgtk_usdrop">>

\* plain ROP node types collect_node_outputs looks at
_HOUDINI_OUTPUTS == <<"alembic", "comp", "ifd", "opengl", "wren">>

TypeOrder == TkTypes \o _HOUDINI_OUTPUTS

Rank(t) == CHOOSE i \in 1..Len(TypeOrder) : TypeOrder[i] = t

Range(s) == {s[i] : i \in 1..Len(s)}

\* an output path is a file on disk, a path to nothing, or the empty string
SubSeqs == UNION {[1..n -> {"exists", "missing"}] : n \in 0..MaxSubs}

PlainNodes ==
    {[type |-> t, path |-> p, published |-> FALSE, subs |-> <<>>] :
        t \in Range(TypeOrder) \ {"sgtk_arnold", "sgtk_hdprman"},
        p \in {"exists", "missing"}}

\* the AOVs of a node are read only once its beauty item exists, so a node
\* that gets none is listed without them
ArnoldNodes ==
    {n \in [type : {"sgtk_arnold"}, path : {"exists", "missing"},
            published : {FALSE}, subs : SubSeqs] :
        n.path # "exists" => n.subs = <<>>}

\* likewise the filters of a node; the published status is read only of a
\* node whose output exists
RendermanNodes ==
    {n \in [type : {"sgtk_hdprman"}, path : {"exists", "missing", "empty"},
            published : BOOLEAN, subs : SubSeqs] :
        /\ n.published => n.path = "exists"
        /\ (n.path # "exists" \/ n.published) => n.subs = <<>>}

Nodes == PlainNodes \cup ArnoldNodes \cup RendermanNodes

\* instances() / get_nodes() answer per node type: the scene is one list per
\* type, written as a single sequence grouped by type
Scenes ==
    {s \in UNION {[1..n -> Nodes] : n \in 0..MaxNodes} :
        \A i \in 1..(Len(s) - 1) : Rank(s[i].type) <= Rank(s[i + 1].type)}

(***************************************************************************)
(* Items                                                                   *)
(***************************************************************************)

\* id of the parent_item handed to process_current_session
RootItem == 0

\* item.properties is a function from the keys written to their values;
\* this is the one of a new item, and a write of no property
NoWrites == <<>>

\* a template object; None is the template an app or the engine does not have
None == [name |-> "None"]
AppTemplates(kind) == {None, [name |-> kind]}

\* the work and publish template of an app that has both kinds: an app
\* configured without templates, or one with both
AppTemplatePairs(work, publish) ==
    {<<None, None>>, <<[name |-> work], [name |-> publish]>>}

\* engine.get_template_by_name(name)
get_template_by_name(name) == [name |-> name]

\* values of the "Work Template" setting
TemplateNames == {"houdini_shot_work"}

\* hou.playbar.playbackRange(): first and last frame as floats, counted in
\* half frames
PlaybackRanges == {<<2, 48>>, <<21, 41>>}

\* int(x) of a non-negative float x given in half frames
int(x) == x \div 2

\* publisher.util.get_publish_name(path, sequence=True)
get_publish_name(path) == "publish name"

\* base class _collect_file / parent_item.create_item: a new item, child of
\* parent.  origin names the call that made it, node and sub the scene node
\* (and AOV / filter) whose output it was made for, path that output's state.
_collect_file(its, parent, origin, node, sub, path) ==
    Append(its, [origin |-> origin, parent |-> parent, node |-> node,
                 sub |-> sub, path |-> path, props |-> NoWrites])

\* item.properties[key] = writes[key], for every key of `writes`, on the
\* item created last
set_properties(its, writes) ==
    [its EXCEPT ![Len(its)].props = writes @@ @]

os_path_exists(path) == path = "exists"

\* the existence test left out: every node's output is collected
skip_missing_never(path) == FALSE

\* `if not os.path.exists(out_path): continue`
skip_missing(path) == ~os_path_exists(path)

Steps == <<"session", "sgtk_alembic", "sgtk_mantra", "sgtk_arnold",
           "sgtk_hdprman", "sgtk_cache", "sgtk_usdrop", "outputs", "done">>

\* the statement of process_current_session that follows step s
NextStep(s) == Steps[(CHOOSE i \in 1..Len(Steps) : Steps[i] = s) + 1]

\* what a step saw: the app's registration and answer, the value of the
\* renderer's environment variable, whether the app was asked for its nodes,
\* and the playback range read (<<>> when none was)
NoCur == [step |-> "none", app |-> "none", env |-> "unread",
          queried |-> FALSE, range |-> <<>>]

Seen(step, app, env, queried, range) ==
    [step |-> step, app |-> app, env |-> env, queried |-> queried,
     range |-> range]

NoFlags == [alembic |-> FALSE, mantra |-> FALSE, arnold |-> FALSE,
            renderman |-> FALSE]

\* the flags as a call that collected nodes of all four kinds leaves them
AllFlags == [alembic |-> TRUE, mantra |-> TRUE, arnold |-> TRUE,
             renderman |-> TRUE]

\* the `item` process_current_session keeps: the session item it created
session_item == CHOOSE i \in 1..Len(items) : items[i].origin = "houdini.session"

(***************************************************************************)
(* Collector: the node loops                                               *)
(***************************************************************************)

\* the `for node in tk_*_nodes` loop of the alembic, mantra, cache and usdrop
\* collectors, from node i on: one item per node of the app's type whose
\* output is on disk, with the property writes `writes`
RECURSIVE collect_tk_nodes(_, _, _, _, _)
collect_tk_nodes(its, i, parent_item, type, writes) ==
    IF i > Len(scene) THEN its
    ELSE IF scene[i].type # type \/ skip_missing(scene[i].path)
         THEN collect_tk_nodes(its, i + 1, parent_item, type, writes)
         ELSE collect_tk_nodes(
                  set_properties(
                      _collect_file(its, parent_item, type, i, 0,
                                    scene[i].path),
                      writes),
                  i + 1, parent_item, type, writes)

\* the writes of `if work_template:` and `if publish_template:`: a template
\* is stored only when it is truthy
template_properties(wt, pt) ==
    [key \in {k \in {"work_template", "publish_template"} :
                 (IF k = "work_template" THEN wt ELSE pt) # None} |->
        IF key = "work_template" THEN wt ELSE pt]

\* the beauty item given its templates only when they are truthy, as the
\* other collectors do
beauty_properties_if_templates(wt, pt, range) ==
    template_properties(wt, pt)
        @@ [first_frame |-> int(range[1]), last_frame |-> int(range[2])]

\* the four writes on an Arnold beauty item; the frames are the playback
\* range as integers
beauty_properties(wt, pt, range) ==
    [work_template |-> wt, publish_template |-> pt,
     first_frame |-> int(range[1]), last_frame |-> int(range[2])]

\* the writes on a RenderMan render item
render_properties(wt, pt, range, path) ==
    [work_template |-> wt, publish_template |-> pt,
     first_frame |-> int(range[1]), last_frame |-> int(range[2]),
     publish_name |-> get_publish_name(path)]

\* the AOV items handed the collector's own parent instead of the beauty item
arnold_aov_parent_session(beauty_item, parent_item) == parent_item

\* the item __collect_tk_arnoldaovs is told to parent the AOV items to
arnold_aov_parent(beauty_item, parent_item) == beauty_item

\* __collect_tk_arnoldaovs, from AOV k of node i on
RECURSIVE collect_tk_arnoldaovs(_, _, _, _, _)
collect_tk_arnoldaovs(its, i, parent_item, k, wt) ==
    IF k > Len(scene[i].subs) THEN its
    ELSE IF skip_missing(scene[i].subs[k])
         THEN collect_tk_arnoldaovs(its, i, parent_item, k + 1, wt)
         ELSE collect_tk_arnoldaovs(
                  set_properties(
                      _collect_file(its, parent_item, "arnold_aov", i, k,
                                    scene[i].subs[k]),
                      template_properties(wt, None)),
                  i, parent_item, k + 1, wt)

\* the `for node in nodes` loop of collect_tk_arnoldnodes, from node i on
RECURSIVE collect_arnold_loop(_, _, _, _, _, _)
collect_arnold_loop(its, i, parent_item, wt, pt, range) ==
    IF i > Len(scene) THEN its
    ELSE IF scene[i].type # "sgtk_arnold" \/ skip_missing(scene[i].path)
         THEN collect_arnold_loop(its, i + 1, parent_item, wt, pt, range)
         ELSE LET beauty ==
                      set_properties(
                          _collect_file(its, parent_item, "sgtk_arnold", i, 0,
                                        scene[i].path),
                          beauty_properties(wt, pt, range))
              IN  collect_arnold_loop(
                      collect_tk_arnoldaovs(
                          beauty, i,
                          arnold_aov_parent(Len(beauty), parent_item), 1, wt),
                      i + 1, parent_item, wt, pt, range)

\* the item __collect_tk_rendermanfilters is told to parent the filter items to
renderman_filter_parent(render_item, parent_item) == render_item

\* __collect_tk_rendermanfilters, from filter k of node i on
RECURSIVE collect_tk_rendermanfilters(_, _, _, _, _)
collect_tk_rendermanfilters(its, i, parent_item, k, wt) ==
    IF k > Len(scene[i].subs) THEN its
    ELSE IF skip_missing(scene[i].subs[k])
         THEN collect_tk_rendermanfilters(its, i, parent_item, k + 1, wt)
         ELSE collect_tk_rendermanfilters(
                  set_properties(
                      _collect_file(its, parent_item, "renderman_filter", i,
                                    k, scene[i].subs[k]),
                      template_properties(wt, None)
                          @@ [publish_name |->
                                  get_publish_name(scene[i].subs[k])]),
                  i, parent_item, k + 1, wt)

\* the `for node in nodes` loop of collect_tk_rendermannodes, from node i on
RECURSIVE collect_renderman_loop(_, _, _, _, _, _)
collect_renderman_loop(its, i, parent_item, wt, pt, range) ==
    IF i > Len(scene) THEN its
    ELSE IF \/ scene[i].type # "sgtk_hdprman"
            \/ scene[i].path = "empty"
            \/ skip_missing(scene[i].path)
            \/ scene[i].published
         THEN collect_renderman_loop(its, i + 1, parent_item, wt, pt, range)
         ELSE LET render ==
                      set_properties(
                          _collect_file(its, parent_item, "sgtk_hdprman", i,
                                        0, scene[i].path),
                          render_properties(wt, pt, range, scene[i].path))
              IN  collect_renderman_loop(
                      collect_tk_rendermanfilters(
                          render, i,
                          renderman_filter_parent(Len(render), parent_item),
                          1, wt),
                      i + 1, parent_item, wt, pt, range)

\* no node type is ever skipped
skip_node_type_never(type) == FALSE

\* collect_node_outputs skips a node type whose tk nodes were collected
skip_node_type(type) ==
    \/ type = "alembic" /\ collected.alembic
    \/ type = "ifd" /\ collected.mantra

\* the loops of collect_node_outputs, from node i on
RECURSIVE collect_outputs_loop(_, _, _)
collect_outputs_loop(its, i, parent_item) ==
    IF i > Len(scene) THEN its
    ELSE IF \/ scene[i].type \notin Range(_HOUDINI_OUTPUTS)
            \/ skip_node_type(scene[i].type)
            \/ skip_missing(scene[i].path)
         THEN collect_outputs_loop(its, i + 1, parent_item)
         ELSE collect_outputs_loop(
                  _collect_file(its, parent_item, scene[i].type, i, 0,
                                scene[i].path),
                  i + 1, parent_item)

(***************************************************************************)
(* Collector: the steps of process_current_session                         *)
(***************************************************************************)

\* the work template written on every session item, configured or not
session_properties_unconditional(setting) ==
    [work_template |->
        IF setting # <<>> THEN get_template_by_name(setting[1]) ELSE None]

\* the write of collect_current_houdini_session: `if work_template_setting:`
\* stores the engine's template of that name
session_properties(setting) ==
    IF setting # <<>>
    THEN [work_template |-> get_template_by_name(setting[1])]
    ELSE NoWrites

\* process_current_session up to its first collector: the session item is
\* created under parent_item and the four flags are reset
collect_current_houdini_session ==
    /\ pc = "session"
    /\ items' = set_properties(
                    _collect_file(items, RootItem, "houdini.session", 0, 0,
                                  "session"),
                    session_properties(settings))
    /\ cur' = Seen(pc, "none", "unread", FALSE, <<>>)
    /\ collected' = NoFlags
    /\ pc' = NextStep(pc)
    /\ UNCHANGED <<scene, settings, missing, err>>
    /\ UNCHANGED pvars
    /\ UNCHANGED hvars

\* the step that ran to its end hands over to the next statement
Return == pc' = NextStep(pc) /\ err' = err

\* an exception leaves the collector and process_current_session with it
Raise(e) == pc' = "raised" /\ err' = e

\* self.logger.debug("The ... app is not installed. ...") of a collector
\* whose app is not registered, on a log that keeps debug messages
logger_debug(log, app) == IF log = "no" /\ app = "absent" THEN "yes" ELSE log

\* the answers of an app queried with get_nodes()
GetNodesApps == {"absent", "old", "ok"}

\* the app is asked for its nodes: `if not app: return` passed
app_queried(app) == app # "absent"

collect_tk_alembicnodes ==
    /\ pc = "sgtk_alembic"
    /\ \E app \in GetNodesApps, wt \in AppTemplates("alembic_work") :
        /\ wt # None => app = "ok"
        /\ cur' = Seen(pc, app, "unread", app_queried(app), <<>>)
        /\ missing' = logger_debug(missing, app)
        /\ IF app = "ok"
           THEN LET new == collect_tk_nodes(items, 1, session_item, pc,
                                            template_properties(wt, None))
                IN  /\ items' = new
                    /\ collected' = [collected EXCEPT
                           !.alembic = @ \/ Len(new) > Len(items)]
           ELSE UNCHANGED <<items, collected>>
    /\ Return
    /\ UNCHANGED <<scene, settings>>
    /\ UNCHANGED pvars
    /\ UNCHANGED hvars

collect_tk_mantranodes ==
    /\ pc = "sgtk_mantra"
    /\ \E app \in GetNodesApps, wt \in AppTemplates("mantra_work") :
        /\ wt # None => app = "ok"
        /\ cur' = Seen(pc, app, "unread", app_queried(app), <<>>)
        /\ missing' = logger_debug(missing, app)
        /\ IF app = "ok"
           THEN LET new == collect_tk_nodes(items, 1, session_item, pc,
                                            template_properties(wt, None))
                IN  /\ items' = new
                    /\ collected' = [collected EXCEPT
                           !.mantra = @ \/ Len(new) > Len(items)]
           ELSE UNCHANGED <<items, collected>>
    /\ Return
    /\ UNCHANGED <<scene, settings>>
    /\ UNCHANGED pvars
    /\ UNCHANGED hvars

\* the arnold and renderman apps: not registered, or registered and, when
\* asked for the nodes, raising or answering
RendererApps == {"absent", "raises", "ok"}

\* os.getenv of the renderer's variable: None, '' or a path
EnvValues == {"unset", "empty", "set"}

\* the node enumeration runs although the renderer's variable is not set
renderer_queried_ungated(app, env) == app # "absent"

\* the app is asked for its nodes: `if not app: return` and
\* `if not htoa_env: return` / `if not rman_env: return` both passed
renderer_queried(app, env) == app # "absent" /\ env = "set"

\* hou.playbar.playbackRange() as a step may read it: the host's range does
\* not change during the call, so a step that follows one that read it reads
\* the same
playbackRange == IF cur.range # <<>> THEN {cur.range} ELSE PlaybackRanges

\* what a renderer collector may see: the variable is read only of a
\* registered app, the app answers only when asked; templates and playback
\* range are read only after the nodes, the Arnold ones also after a failed
\* enumeration
RendererSees(app, env, wt, pt, range, reads) ==
    /\ env = "unread" <=> app = "absent"
    /\ app = "raises" => env = "set"
    /\ (wt # None \/ pt # None) => (renderer_queried(app, env) /\ app = "ok")
    /\ range # <<>> <=> (renderer_queried(app, env) /\ app \in reads)

collect_tk_arnoldnodes ==
    /\ pc = "sgtk_arnold"
    /\ \E app \in RendererApps, env \in EnvValues \cup {"unread"},
          tpl \in AppTemplatePairs("arnold_work", "arnold_publish"),
          range \in playbackRange \cup {<<>>} :
        /\ RendererSees(app, env, tpl[1], tpl[2], range, {"raises", "ok"})
        /\ cur' = Seen(pc, app, env, renderer_queried(app, env), range)
        /\ missing' = logger_debug(missing, app)
        /\ IF renderer_queried(app, env) /\ app = "ok"
           THEN LET new == collect_arnold_loop(items, 1, session_item,
                                               tpl[1], tpl[2], range)
                IN  /\ items' = new
                    /\ collected' = [collected EXCEPT
                           !.arnold = @ \/ Len(new) > Len(items)]
           ELSE UNCHANGED <<items, collected>>
        \* the except clause logs and falls through: `nodes` is unbound
        \* when the loop header reads it
        /\ IF renderer_queried(app, env) /\ app = "raises"
           THEN Raise("UnboundLocalError")
           ELSE Return
    /\ UNCHANGED <<scene, settings>>
    /\ UNCHANGED pvars
    /\ UNCHANGED hvars

collect_tk_rendermannodes ==
    /\ pc = "sgtk_hdprman"
    /\ \E app \in RendererApps, env \in EnvValues \cup {"unread"},
          tpl \in AppTemplatePairs("renderman_work", "renderman_publish"),
          range \in playbackRange \cup {<<>>} :
        /\ RendererSees(app, env, tpl[1], tpl[2], range, {"ok"})
        /\ cur' = Seen(pc, app, env, renderer_queried(app, env), range)
        /\ missing' = logger_debug(missing, app)
        /\ IF renderer_queried(app, env) /\ app = "ok"
           THEN LET new == collect_renderman_loop(items, 1, session_item,
                                                  tpl[1], tpl[2], range)
                IN  /\ items' = new
                    /\ collected' = [collected EXCEPT
                           !.renderman = @ \/ Len(new) > Len(items)]
           ELSE UNCHANGED <<items, collected>>
    /\ Return
    /\ UNCHANGED <<scene, settings>>
    /\ UNCHANGED pvars
    /\ UNCHANGED hvars

collect_tk_cachenodes ==
    /\ pc = "sgtk_cache"
    /\ \E app \in GetNodesApps,
          tpl \in AppTemplatePairs("cache_work", "cache_publish") :
        /\ tpl[1] # None => app = "ok"
        /\ cur' = Seen(pc, app, "unread", app_queried(app), <<>>)
        /\ missing' = logger_debug(missing, app)
        /\ IF app = "ok"
           THEN items' = collect_tk_nodes(items, 1, session_item, pc,
                                          template_properties(tpl[1], tpl[2]))
           ELSE UNCHANGED items
    /\ Return
    /\ UNCHANGED <<scene, settings, collected>>
    /\ UNCHANGED pvars
    /\ UNCHANGED hvars

collect_tk_usdropnodes ==
    /\ pc = "sgtk_usdrop"
    /\ \E app \in GetNodesApps,
          tpl \in AppTemplatePairs("usdrop_work", "usdrop_publish") :
        /\ tpl[1] # None => app = "ok"
        /\ cur' = Seen(pc, app, "unread", app_queried(app), <<>>)
        /\ missing' = logger_debug(missing, app)
        /\ IF app = "ok"
           THEN items' = collect_tk_nodes(items, 1, session_item, pc,
                                          template_properties(tpl[1], tpl[2]))
           ELSE UNCHANGED items
        \* get_nodes() is called outside any try
        /\ IF app = "old" THEN Raise("AttributeError") ELSE Return
    /\ UNCHANGED <<scene, settings, collected>>
    /\ UNCHANGED pvars
    /\ UNCHANGED hvars

collect_node_outputs ==
    /\ pc = "outputs"
    /\ items' = collect_outputs_loop(items, 1, session_item)
    /\ cur' = Seen(pc, "none", "unread", FALSE, <<>>)
    /\ Return
    /\ UNCHANGED <<scene, settings, collected, missing>>
    /\ UNCHANGED pvars
    /\ UNCHANGED hvars

(***************************************************************************)
(* Specification of the collector                                          *)
(***************************************************************************)

\* setFrameRange is not running
HostIdle ==
    /\ startFrame = 1
    /\ endFrame = 1
    /\ frame_range = <<1, 1>>
    /\ playback_range = <<1, 1>>
    /\ frame = 1
    /\ fpc = 0
    /\ host_calls = <<>>

PluginIdle ==
    /\ os_sep = "/"
    /\ properties = <<>>
    /\ review_app = FALSE
    /\ ppc = "off"
    /\ result = <<>>
    /\ calls = <<>>
    /\ version = "none"
    /\ perr = "none"

Init ==
    /\ scene \in Scenes
    \* "Work Template" at its default, None
    /\ settings = <<>>
    /\ pc = "session"
    /\ items = <<>>
    \* the flags as an earlier call on this collector left them
    /\ collected \in {NoFlags, AllFlags}
    /\ cur = NoCur
    \* debug messages are not kept
    /\ missing = "off"
    /\ err = "none"
    /\ PluginIdle
    /\ HostIdle

Next ==
    \/ collect_current_houdini_session
    \/ collect_tk_alembicnodes
    \/ collect_tk_mantranodes
    \/ collect_tk_arnoldnodes
    \/ collect_tk_rendermannodes
    \/ collect_tk_cachenodes
    \/ collect_tk_usdropnodes
    \/ collect_node_outputs

Spec == Init /\ [][Next]_vars

\* the collector with its "Work Template" setting left at the default or
\* configured and with the debug log kept, on the smaller scenes
SettingsInit ==
    /\ scene \in {s \in Scenes : Len(s) <= MaxSettingsNodes}
    /\ settings \in {<<>>} \cup {<<name>> : name \in TemplateNames}
    /\ pc = "session"
    /\ items = <<>>
    /\ collected \in {NoFlags, AllFlags}
    /\ cur = NoCur
    /\ missing = "no"
    /\ err = "none"
    /\ PluginIdle
    /\ HostIdle

SettingsSpec == SettingsInit /\ [][Next]_vars

(***************************************************************************)
(* Review plugin: the item and its templates                               *)
(***************************************************************************)

\* a property that may be absent: <<>> is None, <<v>> holds v
Optional(S) == {<<>>} \cup {<<v>> : v \in S}

Has(props, key) == props[key] # <<>>

\* file paths, as the sequence of their characters
Paths == {<<"r", "/", "a">>, <<"r", "\\", "a">>, <<"r", "/", "b">>}

\* a template matches one path pattern and knows the 'name' field of a path
\* that matches
Templates == {[pattern |-> <<"r", "/", "a">>, name |-> "main"],
              [pattern |-> <<"r", "/", "a">>, name |-> "diffuse"]}

Frames == {1, 24}

PropertyBags ==
    [path : Optional(Paths),
     publish_name : Optional({"render"}),
     color_space : Optional({"ACES"}),
     first_frame : Optional(Frames),
     last_frame : Optional(Frames),
     sg_publish_data : Optional({"publish_1"}),
     publish_template : Optional(Templates)]

\* str.replace(old, new)
replace(s, old, new) ==
    [i \in 1..Len(s) |-> IF s[i] = old THEN new ELSE s[i]]

\* template.validate(path)
validate(template, path) == path = template.pattern

\* template.get_fields(path).get('name')
get_fields_name(template, path) ==
    IF validate(template, path) THEN <<template.name>> ELSE <<>>

checked_filenames == {"main", "beauty", "master"}

(***************************************************************************)
(* Review plugin: accept                                                   *)
(***************************************************************************)

\* accept(settings, item): what it returns, or the exception that leaves it
accept(props, app, sep) ==
    LET skipped == ~app \/ ~Has(props, "first_frame")
                        \/ ~Has(props, "last_frame")
        raised(e) == [outcome |-> "raised", exc |-> e,
                      accepted |-> FALSE, checked |-> FALSE]
    IN  \* each "skipping item" message reads properties["publish_name"]
        IF skipped /\ ~Has(props, "publish_name") THEN raised("KeyError")
        \* item.properties.get("path").replace(...)
        ELSE IF ~Has(props, "path") THEN raised("AttributeError")
        \* output_template.get_fields(path)
        ELSE IF ~Has(props, "publish_template") THEN raised("AttributeError")
        ELSE LET path == replace(props.path[1], sep, "/")
                 render_name == get_fields_name(props.publish_template[1],
                                                path)
             IN  [outcome |-> "returned", exc |-> "none",
                  accepted |-> ~skipped,
                  checked |-> /\ render_name # <<>>
                              /\ render_name[1] \in checked_filenames]

Accept ==
    /\ ppc = "idle"
    /\ result' = <<accept(properties, review_app, os_sep)>>
    /\ ppc' = "accepted"
    /\ UNCHANGED <<os_sep, properties, review_app, calls, version, perr>>
    /\ UNCHANGED cvars
    /\ UNCHANGED hvars

(***************************************************************************)
(* Review plugin: publish                                                  *)
(***************************************************************************)

\* publish without the publish_template.validate(render_path) test
publish_checks_unvalidated(props, sep) ==
    IF ~Has(props, "path") THEN "AttributeError"
    ELSE IF ~Has(props, "sg_publish_data") THEN "Exception: sg_publish_data"
    ELSE IF ~Has(props, "publish_template") THEN "Exception: work_template"
    ELSE "none"

\* publish up to the submission: the exception it raises, or "none"
publish_checks(props, sep) ==
    IF ~Has(props, "path") THEN "AttributeError"
    ELSE IF ~Has(props, "sg_publish_data") THEN "Exception: sg_publish_data"
    ELSE IF ~Has(props, "publish_template") THEN "Exception: work_template"
    ELSE IF ~validate(props.publish_template[1],
                      replace(props.path[1], sep, "/"))
         THEN "Exception: render template"
    ELSE "none"

\* the arguments publish hands to submit_version
submit_arguments(props, sep) ==
    [template |-> props.publish_template[1],
     fields |-> get_fields_name(props.publish_template[1],
                                replace(props.path[1], sep, "/")),
     publish_records |-> <<props.sg_publish_data[1]>>,
     first_frame |-> props.first_frame,
     last_frame |-> props.last_frame]

PublishBegin ==
    /\ ppc = "idle"
    /\ LET e == publish_checks(properties, os_sep)
       IN  IF e = "none"
           THEN ppc' = "submit" /\ perr' = perr
           ELSE ppc' = "raised" /\ perr' = e
    /\ UNCHANGED <<os_sep, properties, review_app, result, calls, version>>
    /\ UNCHANGED cvars
    /\ UNCHANGED hvars

\* tk_multi_deadlinereviewsubmission.submit_version(...)
SubmitVersion ==
    /\ ppc = "submit"
    /\ IF ~review_app
       THEN /\ ppc' = "raised"
            /\ perr' = "AttributeError"
            /\ UNCHANGED <<calls, version>>
       ELSE /\ calls' = Append(calls, submit_arguments(properties, os_sep))
            /\ \E v \in {"truthy", "falsy", "raises"} :
                /\ version' = v
                /\ IF v = "raises"
                   THEN ppc' = "raised" /\ perr' = "submit_version"
                   ELSE ppc' = "returned" /\ perr' = perr
    /\ UNCHANGED <<os_sep, properties, review_app, result>>
    /\ UNCHANGED cvars
    /\ UNCHANGED hvars

\* the version test left out: publish returns whatever was submitted
PublishEnd_any_version ==
    /\ ppc = "returned"
    /\ ppc' = "done"
    /\ perr' = perr
    /\ UNCHANGED <<os_sep, properties, review_app, result, calls, version>>
    /\ UNCHANGED cvars
    /\ UNCHANGED hvars

\* a failed submission is submitted again
PublishEnd_retry ==
    /\ ppc = "returned"
    /\ IF version = "truthy" THEN ppc' = "done" ELSE ppc' = "submit"
    /\ perr' = perr
    /\ UNCHANGED <<os_sep, properties, review_app, result, calls, version>>
    /\ UNCHANGED cvars
    /\ UNCHANGED hvars

\* `if version: ... else: raise`
PublishEnd ==
    /\ ppc = "returned"
    /\ IF version = "truthy"
       THEN ppc' = "done" /\ perr' = perr
       ELSE ppc' = "raised" /\ perr' = "Exception: submission failed"
    /\ UNCHANGED <<os_sep, properties, review_app, result, calls, version>>
    /\ UNCHANGED cvars
    /\ UNCHANGED hvars

(***************************************************************************)
(* Specification of the review plugin                                      *)
(***************************************************************************)

CollectorIdle ==
    /\ scene = <<>>
    /\ settings = <<>>
    /\ pc = "off"
    /\ items = <<>>
    /\ collected = NoFlags
    /\ cur = NoCur
    /\ missing = "off"
    /\ err = "none"

PluginInit ==
    /\ os_sep \in {"/", "\\"}
    /\ properties \in PropertyBags
    /\ review_app \in BOOLEAN
    /\ ppc = "idle"
    /\ result = <<>>
    /\ calls = <<>>
    /\ version = "none"
    /\ perr = "none"
    /\ CollectorIdle
    /\ HostIdle

PluginNext ==
    \/ Accept
    \/ PublishBegin
    \/ SubmitVersion
    \/ PublishEnd

PluginSpec == PluginInit /\ [][PluginNext]_vars

(***************************************************************************)
(* startup.setFrameRange                                                   *)
(***************************************************************************)

\* a frame range: first and last frame, first <= last
FrameRanges == {r \in (1..MaxFrame) \X (1..MaxFrame) : r[1] <= r[2]}

\* the host calls reordered: the current frame is set first
setFrameRange_frame_first == <<"setFrame", "setFrameRange", "setPlaybackRange">>

\* the statements of setFrameRange, in program order
setFrameRange == <<"setFrameRange", "setPlaybackRange", "setFrame">>

\* statement fpc of setFrameRange is the host call `name`
AtCall(name) ==
    /\ fpc \in 1..Len(setFrameRange)
    /\ setFrameRange[fpc] = name

\* the call returns and the next statement is up
Called(name) ==
    /\ host_calls' = Append(host_calls, name)
    /\ fpc' = fpc + 1
    /\ UNCHANGED <<startFrame, endFrame>>
    /\ UNCHANGED cvars
    /\ UNCHANGED pvars

\* hou.playbar.setFrameRange(startFrame, endFrame)
playbar_setFrameRange ==
    /\ AtCall("setFrameRange")
    /\ frame_range' = <<startFrame, endFrame>>
    /\ UNCHANGED <<playback_range, frame>>
    /\ Called("setFrameRange")

\* hou.playbar.setPlaybackRange(startFrame, endFrame)
playbar_setPlaybackRange ==
    /\ AtCall("setPlaybackRange")
    /\ playback_range' = <<startFrame, endFrame>>
    /\ UNCHANGED <<frame_range, frame>>
    /\ Called("setPlaybackRange")

\* hou.setFrame(startFrame)
setFrame ==
    /\ AtCall("setFrame")
    /\ frame' = startFrame
    /\ UNCHANGED <<frame_range, playback_range>>
    /\ Called("setFrame")

\* setFrameRange is called with a frame range, on a host in any state
HostInit ==
    /\ \E r \in FrameRanges : startFrame = r[1] /\ endFrame = r[2]
    /\ frame_range \in FrameRanges
    /\ playback_range \in FrameRanges
    /\ frame \in 1..MaxFrame
    /\ fpc = 1
    /\ host_calls = <<>>
    /\ CollectorIdle
    /\ PluginIdle

HostNext ==
    \/ playbar_setFrameRange
    \/ playbar_setPlaybackRange
    \/ setFrame

HostSpec == HostInit /\ [][HostNext]_vars

\* frame f lies in range r
Contains(r, f) == r[1] <= f /\ f <= r[2]

\* C11: after setFrameRange(startFrame, endFrame) the host's frame range and
\* playback range are (startFrame, endFrame) and the current frame is
\* startFrame; the host is updated in the order frame range, playback range,
\* current frame, so the current frame is set only once both ranges contain
\* it.
C11_ranges_then_frame ==
    /\ [](fpc > 3 =>
            /\ frame_range = <<startFrame, endFrame>>
            /\ playback_range = <<startFrame, endFrame>>
            /\ frame = startFrame
            /\ host_calls = <<"setFrameRange", "setPlaybackRange",
                              "setFrame">>)
    /\ [][host_calls' = Append(host_calls, "setFrame") =>
            /\ host_calls = <<"setFrameRange", "setPlaybackRange">>
            /\ frame_range = <<startFrame, endFrame>>
            /\ playback_range = <<startFrame, endFrame>>
            /\ Contains(frame_range, frame')
            /\ Contains(playback_range, frame')]_vars

\* setFrameRange(2, 3) has run to its end
C11_witness ==
    /\ fpc > 3
    /\ frame_range = <<2, 3>>
    /\ playback_range = <<2, 3>>
    /\ frame = 2

(***************************************************************************)
(* Properties of publish                                                   *)
(***************************************************************************)

\* publish has left its first statement / has ended
PublishStarted == ppc \in {"submit", "returned", "done", "raised"}
PublishEnded == ppc \in {"done", "raised"}

\* render_path as publish computes it
render_path == replace(properties.path[1], os_sep, "/")

NoPublishData == ~Has(properties, "sg_publish_data")
NoPublishTemplate == ~Has(properties, "publish_template")
TemplateMismatch ==
    /\ Has(properties, "path")
    /\ Has(properties, "publish_template")
    /\ ~validate(properties.publish_template[1], render_path)

\* the three tests of publish pass on the item
ChecksPass ==
    /\ Has(properties, "path")
    /\ ~NoPublishData
    /\ ~NoPublishTemplate
    /\ ~TemplateMismatch

\* C1: publish raises and never calls submit_version when the item has no
\* 'sg_publish_data', no 'publish_template', or a render path its template
\* does not validate; any call of submit_version comes after all three tests
\* have passed.
C1_checks_guard_submission ==
    /\ (NoPublishData \/ NoPublishTemplate \/ TemplateMismatch)
           => /\ calls = <<>>
              /\ PublishStarted => (ppc = "raised" /\ perr # "none")
    /\ calls # <<>> => ChecksPass

\* publish was run on an item whose path does not match its template, and
\* raised without submitting
C1_witness ==
    /\ ppc = "raised"
    /\ TemplateMismatch
    /\ ~NoPublishData
    /\ perr = "Exception: render template"
    /\ calls = <<>>

\* C2: with the preconditions of publish holding, publish returns normally
\* exactly when submit_version returned a truthy version; a falsy version
\* makes publish raise.
C2_returns_iff_version ==
    (ChecksPass /\ PublishEnded)
        => /\ ppc = "done" <=> version = "truthy"
           /\ version = "falsy"
                  => (ppc = "raised" /\ perr = "Exception: submission failed")

\* publish ended after submit_version returned a falsy version
C2_witness ==
    /\ ChecksPass
    /\ ppc = "raised"
    /\ version = "falsy"
    /\ Len(calls) = 1

\* C10: no retry.  One run of publish calls submit_version at most once; a
\* falsy version ends the run in the error outcome with that single call;
\* publish_records is the one-element list of the item's 'sg_publish_data'
\* and first_frame / last_frame are the item's properties as they are.
C10_single_submission ==
    /\ Len(calls) <= 1
    /\ (version = "falsy" /\ ppc # "returned")
           => (ppc = "raised" /\ Len(calls) = 1)
    /\ \A c \in 1..Len(calls) :
        /\ Has(properties, "sg_publish_data")
        /\ calls[c].publish_records = <<properties.sg_publish_data[1]>>
        /\ calls[c].first_frame = properties.first_frame
        /\ calls[c].last_frame = properties.last_frame

\* a failed submission of an item with two different frame numbers has
\* ended in the error outcome
C10_witness ==
    /\ ppc = "raised"
    /\ version = "falsy"
    /\ Len(calls) = 1
    /\ properties.first_frame = <<1>>
    /\ properties.last_frame = <<24>>
    /\ calls[1].first_frame = <<1>>
    /\ calls[1].last_frame = <<24>>

(***************************************************************************)
(* Properties of accept                                                    *)
(***************************************************************************)

AcceptEnded == ppc = "accepted"

\* C7: without the review submission app, accept returns (does not raise) a
\* result whose 'accepted' is False, for every item.
C7_no_app_not_accepted ==
    (AcceptEnded /\ ~review_app)
        => (result[1].outcome = "returned" /\ ~result[1].accepted)

\* the part of C7 the code keeps: without the app no item is accepted
C7_no_app_never_accepted ==
    (AcceptEnded /\ ~review_app) => ~result[1].accepted

\* C14: when the item's 'path' property is not defined, accept returns a
\* result with accepted=False (the item is skipped) rather than raising.
C14_no_path_not_accepted ==
    (AcceptEnded /\ ~Has(properties, "path"))
        => (result[1].outcome = "returned" /\ ~result[1].accepted)

\* what accept does instead: without 'path' it never returns
C14_no_path_raises ==
    (AcceptEnded /\ ~Has(properties, "path"))
        => (result[1].outcome = "raised"
            /\ result[1].exc \in {"KeyError", "AttributeError"})

RequiredProperties ==
    {"path", "publish_name", "color_space", "first_frame", "last_frame"}

\* C8: accept returns accepted=True only for an item that has all of 'path',
\* 'publish_name', 'color_space', 'first_frame' and 'last_frame'.
C8_accepted_has_required ==
    (AcceptEnded /\ result[1].outcome = "returned" /\ result[1].accepted)
        => \A key \in RequiredProperties : Has(properties, key)

\* the part of C8 the code keeps: an accepted item has 'path', 'first_frame'
\* and 'last_frame'
C8_accepted_has_tested ==
    (AcceptEnded /\ result[1].outcome = "returned" /\ result[1].accepted)
        => \A key \in {"path", "first_frame", "last_frame"} :
               Has(properties, key)

(***************************************************************************)
(* Properties of the collector                                             *)
(***************************************************************************)

\* the step that has just run was the collector of `step` and its app
\* answered `app`
JustRan(step, app) == cur'.step = step /\ cur'.app = app /\ pc = step

\* that step created nothing, raised nothing and handed over to the next
\* statement of process_current_session
Skipped ==
    /\ items' = items
    /\ err' = "none"
    /\ pc' = NextStep(pc)

\* the collector of an unregistered app creates no item, writes no property,
\* raises nothing and hands over to the next collector step
AbsentAppSkipped ==
    [][\A t \in Range(TkTypes) : JustRan(t, "absent") => Skipped]_vars

\* C3: for each of the six optional apps, when it is not registered its
\* collector creates no items, writes no property and raises nothing, and
\* process_current_session goes on to run every remaining collector step:
\* a call in which an app was found unregistered is not cut short.
C3_absent_app_all_steps_run ==
    /\ AbsentAppSkipped
    /\ [](missing = "yes" => pc # "raised")

\* the part of C3 the code keeps, as a predicate on the step just taken
C3_absent_app_step ==
    (cur.app = "absent") => (err = "none" /\ pc = NextStep(cur.step))

\* C4: in the alembic, mantra, cache and usdrop collectors, when get_nodes()
\* raises AttributeError the collector creates no items, lets no exception
\* out, and process_current_session continues with the next collector step.
C4_old_api_skipped ==
    [][\A t \in {"sgtk_alembic", "sgtk_mantra", "sgtk_cache", "sgtk_usdrop"} :
           JustRan(t, "old") => Skipped]_vars

\* C5: in the Arnold and RenderMan collectors, with the app installed and
\* the renderer's environment variable set, when the node enumeration raises
\* the collector creates no items, lets no exception out, and the later
\* steps of process_current_session still run.
C5_enumeration_failure_skipped ==
    [][\A t \in {"sgtk_arnold", "sgtk_hdprman"} :
           (JustRan(t, "raises") /\ cur'.env = "set") => Skipped]_vars

\* the items below the session item
Created == {i \in 1..Len(items) : items[i].origin # "houdini.session"}

\* the state on disk of the output item i was made for
OutputOf(i) ==
    IF items[i].sub = 0 THEN scene[items[i].node].path
    ELSE scene[items[i].node].subs[items[i].sub]

\* node n has an item of its own (not one of its AOVs or filters)
HasItem(n) == \E i \in Created : items[i].node = n /\ items[i].sub = 0

\* node n is one the collector step that ran last wants an item for, its
\* output's existence aside
Wanted(n) ==
    IF cur.step = "outputs"
    THEN scene[n].type \in Range(_HOUDINI_OUTPUTS)
             /\ ~(scene[n].type = "alembic" /\ collected.alembic)
             /\ ~(scene[n].type = "ifd" /\ collected.mantra)
    ELSE /\ cur.app = "ok"
         /\ cur.queried
         /\ scene[n].type = cur.step
         /\ ~scene[n].published
         /\ scene[n].path # "empty"

\* C6: every item created below the session item was created for an output
\* path that existed on disk; a node, AOV or filter whose output does not
\* exist gets no item (hence no property), and the loop goes on: the nodes
\* after it whose output exists do get their item.
C6_items_exist_on_disk ==
    /\ \A i \in Created : items[i].path = "exists" /\ OutputOf(i) = "exists"
    /\ \A n \in 1..Len(scene) :
        /\ scene[n].path # "exists" => ~HasItem(n)
        /\ (Wanted(n) /\ scene[n].path = "exists") => HasItem(n)

\* a node without output on disk was passed over and the node of the same
\* type after it, whose output exists, was collected
C6_witness ==
    /\ pc = "done"
    /\ \E n \in 1..(Len(scene) - 1) :
        /\ scene[n].type = scene[n + 1].type
        /\ scene[n].path = "missing"
        /\ scene[n + 1].path = "exists"
        /\ ~HasItem(n)
        /\ HasItem(n + 1)

NodeOrigins == Range(TkTypes) \cup Range(_HOUDINI_OUTPUTS)

\* item i hangs under an item made by `origin` for the same node
ChildOfNodeItem(i, origin) ==
    /\ items[i].parent \in 1..(i - 1)
    /\ items[items[i].parent].origin = origin
    /\ items[items[i].parent].node = items[i].node
    /\ items[items[i].parent].sub = 0

\* C9: after a process_current_session call that completes, the created
\* items form a tree under parent_item: exactly one 'houdini.session' item,
\* a child of parent_item and its only child; every node output item is a
\* child of the session item; every Arnold AOV item is a child of the beauty
\* item of its node and every RenderMan filter item a child of the render
\* item of its node.
C9_items_form_tree ==
    pc = "done" =>
        /\ Cardinality({i \in 1..Len(items) :
                            items[i].origin = "houdini.session"}) = 1
        /\ \A i \in 1..Len(items) :
            /\ items[i].parent \in 0..(i - 1)
            /\ items[i].origin = "houdini.session"
                   <=> items[i].parent = RootItem
            /\ items[i].origin \in NodeOrigins
                   => items[items[i].parent].origin = "houdini.session"
            /\ items[i].origin = "arnold_aov"
                   => ChildOfNodeItem(i, "sgtk_arnold")
            /\ items[i].origin = "renderman_filter"
                   => ChildOfNodeItem(i, "sgtk_hdprman")

\* a completed call that collected an Arnold AOV and a RenderMan filter
C9_witness ==
    /\ pc = "done"
    /\ \E i \in 1..Len(items) : items[i].origin = "arnold_aov"
    /\ \E i \in 1..Len(items) : items[i].origin = "renderman_filter"

(***************************************************************************)
(* Properties of the collector's property writes                           *)
(***************************************************************************)

\* C12: once collect_current_houdini_session has run, the session item has a
\* work_template property exactly when the "Work Template" setting is
\* configured; it then holds the template the engine returns for the
\* setting's value, and with the setting unconfigured the session item has
\* no property written at all.
C12_session_work_template ==
    pc # "session" =>
        LET props == items[session_item].props
        IN  IF settings # <<>>
            THEN /\ "work_template" \in DOMAIN props
                 /\ props.work_template = get_template_by_name(settings[1])
            ELSE props = NoWrites

C12_witness ==
    /\ pc = "done"
    /\ settings = <<"houdini_shot_work">>
    /\ items[session_item].props
           = [work_template |-> [name |-> "houdini_shot_work"]]
    /\ Len(items) > 1

(***************************************************************************)
(* Properties of collect_node_outputs                                      *)
(***************************************************************************)

\* item i was made by collect_node_outputs
PlainItem(i) == items[i].origin \in Range(_HOUDINI_OUTPUTS)

\* an item of the tk collector of `type` was created in this call
TkItemCreated(type) == \E i \in Created : items[i].origin = type

\* the tk node type whose items make collect_node_outputs skip plain nodes
\* of `type`, or "none"
TkTypeOver(type) ==
    IF type = "alembic" THEN "sgtk_alembic"
    ELSE IF type = "ifd" THEN "sgtk_mantra"
    ELSE "none"

\* C13: within one process_current_session call collect_node_outputs runs
\* after all tk collectors (its items appear only once the call is through
\* its last step, and after every tk item); a plain alembic node gets no
\* item if a tk alembic item was created earlier in the call, a plain ifd
\* node none if a tk mantra item was; comp, opengl and wren nodes are never
\* skipped for this reason, and without a tk alembic (mantra) item the plain
\* alembic (ifd) nodes with existing output are collected.
C13_plain_nodes_after_tk ==
    /\ \A i \in 1..Len(items) : PlainItem(i) =>
           /\ pc = "done"
           /\ \A j \in i..Len(items) : PlainItem(j)
    /\ pc = "done" =>
           \A n \in 1..Len(scene) :
               scene[n].type \in Range(_HOUDINI_OUTPUTS) =>
                   (HasItem(n) <=>
                       /\ os_path_exists(scene[n].path)
                       /\ ~TkItemCreated(TkTypeOver(scene[n].type)))

C13_witness ==
    /\ pc = "done"
    /\ TkItemCreated("sgtk_alembic")
    /\ \E n \in 1..Len(scene) :
           /\ scene[n].type = "alembic"
           /\ os_path_exists(scene[n].path)
           /\ ~HasItem(n)

(***************************************************************************)
(* Properties of the renderer collectors                                   *)
(***************************************************************************)

\* the items made for nodes of type t: beauty / render items and their AOV
\* or filter items
ItemsOfType(t) ==
    {i \in Created : items[i].node # 0 /\ scene[items[i].node].type = t}

\* C15: the renderer integrations are gated by environment variables: with
\* the tk-houdini-arnold app registered and HTOA unset or empty,
\* collect_tk_arnoldnodes does not ask the app for its nodes and creates no
\* item, and likewise collect_tk_rendermannodes with tk-houdini-renderman and
\* RMANTREE; in both cases nothing is raised and the call goes on.
C15_env_gates_renderers ==
    \A t \in {"sgtk_arnold", "sgtk_hdprman"} :
        (cur.step = t /\ cur.app # "absent" /\ cur.env \in {"unset", "empty"})
            => /\ ~cur.queried
               /\ ItemsOfType(t) = {}
               /\ err = "none"
               /\ pc = NextStep(t)

C15_witness ==
    /\ cur.step = "sgtk_arnold"
    /\ cur.app = "ok"
    /\ cur.env = "empty"
    /\ pc = "sgtk_hdprman"
    /\ \E n \in 1..Len(scene) :
           scene[n].type = "sgtk_arnold" /\ os_path_exists(scene[n].path)

\* the beauty items of the Arnold collector (t = "sgtk_arnold") or the render
\* items of the RenderMan collector (t = "sgtk_hdprman")
RenderItems(t) == {i \in Created : items[i].origin = t}

\* C16: every Arnold beauty item and every RenderMan render item carries
\* work_template, publish_template, first_frame and last_frame; the frames
\* are the playback range the collector read once before its node loop, as
\* integers, so all such items of one collector hold the same values.  The
\* AOV and filter sub-items and the items of the alembic, mantra, cache,
\* usdrop and plain-node collectors have no first_frame and no last_frame.
C16_render_items_carry_frames ==
    /\ \A t \in {"sgtk_arnold", "sgtk_hdprman"} :
           \A i \in RenderItems(t) :
               /\ {"work_template", "publish_template", "first_frame",
                   "last_frame"} \subseteq DOMAIN items[i].props
               /\ \A j \in RenderItems(t) :
                      /\ items[j].props.first_frame = items[i].props.first_frame
                      /\ items[j].props.last_frame = items[i].props.last_frame
               /\ cur.step = t =>
                      /\ items[i].props.first_frame = int(cur.range[1])
                      /\ items[i].props.last_frame = int(cur.range[2])
    /\ \A i \in Created :
           items[i].origin \notin {"sgtk_arnold", "sgtk_hdprman"} =>
               DOMAIN items[i].props \cap {"first_frame", "last_frame"} = {}

C16_witness ==
    /\ cur.step = "sgtk_arnold"
    /\ cur.range = <<21, 41>>
    /\ Cardinality(RenderItems("sgtk_arnold")) = 2
    /\ \A i \in RenderItems("sgtk_arnold") :
           /\ items[i].props.work_template = None
           /\ items[i].props.first_frame = 10
           /\ items[i].props.last_frame = 20

====
